---- MODULE Spec2Model ----
(***************************************************************************)
(* A model of gltf v2 (src/src/v2.rs): the typed-index codec, the          *)
(* numeric-coded enumerations, the serde-derived strict parser of the      *)
(* document structs, Root::import_from_str with its integrity check, and   *)
(* the per-collection lookups of Root.                                     *)
(*                                                                         *)
(* Conventions.                                                            *)
(*  - An Option<T> / Result<T,E> is a sequence of length 0 or 1, so that   *)
(*    every value of a field has one shape.                                *)
(*  - A JSON number on the wire is [kind, hi, lo]: kind "u64" is the       *)
(*    unsigned integer hi * 2^32 + lo, the other kinds (negative integer,  *)
(*    float, string) are what serde_json hands to another visit_* method.  *)
(*    A u32 is its low word, so `x as u32` is the projection on lo.        *)
(*  - A JSON object on the wire is a function from the keys it carries to  *)
(*    their values: DOMAIN o is the set of keys present, and a key no      *)
(*    struct declares is an unknown field of that object.                  *)
(***************************************************************************)
EXTENDS Integers, Sequences, FiniteSets, TLC

VARIABLES
    json,           \* import_from_str's argument: <<>> before the call
    pc,             \* position inside import_from_str
    parsed,         \* the outcome of serde_json::from_str
    validatorRuns,  \* calls of indices_are_valid made by this import
    result,         \* what import_from_str returned: <<>> until it returns
    lookup,         \* the last read of the returned Root: a lookup or a slice
    cin,            \* codec: the wire value handed to a decoder
    cval,           \* codec: the decoded value (Result)
    cout,           \* codec: the re-encoded wire value (Option)
    verdicts        \* what indices_are_valid said on the returned Root, later

vars == <<json, pc, parsed, validatorRuns, result, lookup, cin, cval, cout, verdicts>>

(***************************************************************************)
(* Bounds of the model.                                                    *)
(***************************************************************************)
MaxNodes == 2       \* nodes in a document
MaxLen == 1         \* entries of a children / scene-nodes list, scenes
MaxRefs == 1        \* accessors, buffer views, buffers in a document
MaxLo == 3          \* low words of the wire integers the codec is fed
MaxHi == 1          \* high words (multiples of 2^32) of those integers
FarIdx == 5         \* an index value far outside every collection
CodeSpan == 2       \* enumeration codes tried around the declared ones
BadCode == 9999     \* an enumeration code outside every declared set
MaxRuns == 2        \* later runs of the validator on one returned Root

Some(v) == <<v>>
None == <<>>
Ok(v) == [err |-> <<>>, val |-> <<v>>]
Err(e) == [err |-> <<e>>, val |-> <<>>]
IsOk(r) == r.err = <<>>

(***************************************************************************)
(* Wire numbers.                                                           *)
(***************************************************************************)
U64(h, l) == [kind |-> "u64", hi |-> h, lo |-> l]
Num(n) == U64(0, n)

as_u32(w) == w.lo
as_u64(v) == U64(0, v)

(***************************************************************************)
(* Index<T>: struct Index<T>(u32, PhantomData<T>).                         *)
(***************************************************************************)
Index_new(value, T) == [value |-> value, tag |-> T]
Index_value(self) == self.value

SerdeError(ty, object, field) == [type |-> ty, object |-> object, field |-> field]

\* impl Deserialize for Index<T>: deserialize_u64 with a visitor that only
\* implements visit_u64 (Ok(Index::new(value as u32))); every other JSON
\* value reaches a default visit_* method, which is an "invalid type" error.
Index_deserialize(w, T) ==
    IF w.kind = "u64"
    THEN Ok(Index_new(as_u32(w), T))
    ELSE Err(SerdeError("InvalidType", T, "index"))

\* impl Serialize for Index<T>: serialize_u64(self.value() as u64).
Index_serialize(self) == as_u64(Index_value(self))

(***************************************************************************)
(* Numeric-coded enumerations: the enum_number! tables of v2.rs, variant   *)
(* name |-> code.                                                          *)
(***************************************************************************)
\* AccessorDataType with the codes of U32 and F32 exchanged.
AccessorDataType_exchanged ==
    [I8 |-> 5120, U8 |-> 5121, I16 |-> 5122, U16 |-> 5123, U32 |-> 5126,
     F32 |-> 5125]

AccessorDataType ==
    [I8 |-> 5120, U8 |-> 5121, I16 |-> 5122, U16 |-> 5123, U32 |-> 5125,
     F32 |-> 5126]

BufferTarget == [ArrayBuffer |-> 34962, ElementArrayBuffer |-> 34963]

MeshPrimitiveMode ==
    [Points |-> 0, Lines |-> 1, LineLoop |-> 2, LineStrip |-> 3,
     Triangles |-> 4, TriangleStrip |-> 5, TriangleFan |-> 6]

SamplerMagFilter == [Nearest |-> 9728, Linear |-> 9729]

SamplerMinFilter ==
    [Nearest |-> 9728, Linear |-> 9729, NearestMipmapNearest |-> 9984,
     LinearMipmapNearest |-> 9985, NearestMipmapLinear |-> 9986,
     LinearMipmapLinear |-> 9987]

SamplerWrappingMode ==
    [ClampToEdge |-> 33071, MirroredRepeat |-> 33648, Repeat |-> 10497]

TextureDataType ==
    [U8 |-> 5121, U16_R5_G6_B5 |-> 33635, U16_R4_G4_B4_A4 |-> 32819,
     U16_R5_G5_B5_A1 |-> 32820]

TextureFormat ==
    [Alpha |-> 6406, Rgb |-> 6407, Rgba |-> 6408, Luminance |-> 6409,
     LuminanceAlpha |-> 6410]

TextureTarget == [Texture2d |-> 3553]

EnumNames ==
    {"AccessorDataType", "BufferTarget", "MeshPrimitiveMode",
     "SamplerMagFilter", "SamplerMinFilter", "SamplerWrappingMode",
     "TextureDataType", "TextureFormat", "TextureTarget"}

EnumTable(name) ==
    CASE name = "AccessorDataType" -> AccessorDataType
      [] name = "BufferTarget" -> BufferTarget
      [] name = "MeshPrimitiveMode" -> MeshPrimitiveMode
      [] name = "SamplerMagFilter" -> SamplerMagFilter
      [] name = "SamplerMinFilter" -> SamplerMinFilter
      [] name = "SamplerWrappingMode" -> SamplerWrappingMode
      [] name = "TextureDataType" -> TextureDataType
      [] name = "TextureFormat" -> TextureFormat
      [] name = "TextureTarget" -> TextureTarget

EnumCodes(name) == {EnumTable(name)[v] : v \in DOMAIN EnumTable(name)}

\* The enum_number! macro itself is not part of v2.rs: its decoder accepts
\* one code of the closed set and yields the variant assigned to it, any
\* other value is InvalidEnumValue; its encoder re-emits the assigned code.
enum_number_deserialize(name, w) ==
    IF w.kind = "u64" /\ w.hi = 0 /\ w.lo \in EnumCodes(name)
    THEN Ok(CHOOSE v \in DOMAIN EnumTable(name) : EnumTable(name)[v] = w.lo)
    ELSE Err(SerdeError("InvalidEnumValue", name, "code"))

enum_number_serialize(name, v) == Num(EnumTable(name)[v])

(***************************************************************************)
(* String-coded enumerations: the enum_string! tables of v2.rs.            *)
(***************************************************************************)
AccessorKind == {"SCALAR", "VEC2", "VEC3", "VEC4", "MAT2", "MAT3", "MAT4"}
AnimationChannelTargetPath == {"rotation", "scale", "translation"}
AnimationSamplerInterpolation == {"LINEAR", "STEP"}

StringEnum(name) ==
    CASE name = "AccessorKind" -> AccessorKind
      [] name = "AnimationChannelTargetPath" -> AnimationChannelTargetPath
      [] name = "AnimationSamplerInterpolation" -> AnimationSamplerInterpolation

\* The enum_string! macro is not part of v2.rs either: exact-match literals.
enum_string_deserialize(name, w) ==
    IF w \in StringEnum(name)
    THEN Ok(w)
    ELSE Err(SerdeError("InvalidEnumValue", name, "literal"))

(***************************************************************************)
(* The structs of v2.rs as #[derive(Deserialize)] reads them: per struct   *)
(* its members in declaration order, each with its Rust name, its key on   *)
(* the wire (the rename, or the name), how absence is treated (required,   *)
(* Option, or default with the default's value) and its type.              *)
(***************************************************************************)
TIndex(T) == [kind |-> "Index", of |-> T]
TEnum(name) == [kind |-> "Enum", of |-> name]
TStringEnum(name) == [kind |-> "StringEnum", of |-> name]
TStruct(name) == [kind |-> "Struct", of |-> name]
TVec(ty) == [kind |-> "Vec", elem |-> ty]
TMap(ty) == [kind |-> "Map", elem |-> ty]
TU32 == [kind |-> "u32"]
\* bool, f32, String, arrays of f32, serde_json::Value, UntypedJsonObject:
\* values the model passes through as they are.
TAny == [kind |-> "Any"]

Req(member, key, ty) ==
    [member |-> member, key |-> key, mode |-> "required", ty |-> ty, dflt |-> None]
Opt(member, key, ty) ==
    [member |-> member, key |-> key, mode |-> "option", ty |-> ty, dflt |-> None]
Dflt(member, key, ty, d) ==
    [member |-> member, key |-> key, mode |-> "default", ty |-> ty, dflt |-> Some(d)]

EmptyMap == [k \in {} |-> None]
Null == "null"

root_scene_default == Index_new(0, "Scene")
asset_version_default == "2.0"
material_pbr_metallic_roughness_base_color_factor_default == <<1, 1, 1, 1>>
material_pbr_metallic_roughness_metallic_factor_default == 1
material_pbr_metallic_roughness_roughness_factor_default == 1
material_normal_texture_scale_default == 1
material_occlusion_texture_strength_default == 1
node_matrix_default ==
    <<<<1, 0, 0, 0>>, <<0, 1, 0, 0>>, <<0, 0, 1, 0>>, <<0, 0, 0, 1>>>>
node_rotation_default == <<0, 0, 0, 1>>
node_scale_default == <<1, 1, 1>>

\* impl Default for the enumerations.
MeshPrimitiveMode_default == "Triangles"
SamplerMagFilter_default == "Linear"
SamplerMinFilter_default == "NearestMipmapLinear"
SamplerWrappingMode_default == "Repeat"
TextureDataType_default == "U8"
TextureFormat_default == "Rgba"
TextureTarget_default == "Texture2d"

Root ==
    <<Dflt("accessors", "accessors", TVec(TStruct("Accessor")), <<>>),
      Dflt("animations", "animations", TVec(TStruct("Animation")), <<>>),
      Req("asset", "asset", TStruct("Asset")),
      Dflt("buffers", "buffers", TVec(TStruct("Buffer")), <<>>),
      Dflt("buffer_views", "bufferViews", TVec(TStruct("BufferView")), <<>>),
      Dflt("extensions_used", "extensionsUsed", TVec(TAny), <<>>),
      Dflt("extensions_required", "extensionsRequired", TVec(TAny), <<>>),
      Dflt("cameras", "cameras", TVec(TStruct("Camera")), <<>>),
      Dflt("images", "images", TVec(TStruct("Image")), <<>>),
      Dflt("materials", "materials", TVec(TStruct("Material")), <<>>),
      Dflt("meshes", "meshes", TVec(TStruct("Mesh")), <<>>),
      Dflt("nodes", "nodes", TVec(TStruct("Node")), <<>>),
      Dflt("samplers", "samplers", TVec(TStruct("Sampler")), <<>>),
      Dflt("scene", "scene", TIndex("Scene"), root_scene_default),
      Dflt("scenes", "scenes", TVec(TStruct("Scene")), <<>>),
      Dflt("skins", "skins", TVec(TStruct("Skin")), <<>>),
      Dflt("textures", "textures", TVec(TStruct("Texture")), <<>>)>>

Accessor ==
    <<Req("buffer_view", "bufferView", TIndex("BufferView")),
      Req("byte_offset", "byteOffset", TU32),
      Req("count", "count", TU32),
      Req("data_type", "componentType", TEnum("AccessorDataType")),
      Opt("extensions", "extensions", TAny),
      Opt("extras", "extras", TAny),
      Req("kind", "type", TStringEnum("AccessorKind")),
      Dflt("min", "min", TAny, Null),
      Dflt("max", "max", TAny, Null),
      Opt("name", "name", TAny),
      Dflt("normalized", "normalized", TAny, FALSE),
      Opt("sparse", "sparse", TStruct("AccessorSparseStorage"))>>

\* buffer_view and byte_offset are both renamed "byteOffset"; data_type is
\* not renamed.
AccessorSparseIndices ==
    <<Req("buffer_view", "byteOffset", TIndex("BufferView")),
      Dflt("byte_offset", "byteOffset", TU32, 0),
      Req("data_type", "data_type", TEnum("AccessorDataType")),
      Opt("extensions", "extensions", TAny),
      Opt("extras", "extras", TAny)>>

AccessorSparseStorage ==
    <<Req("count", "count", TU32),
      Opt("extensions", "extensions", TAny),
      Opt("extras", "extras", TAny),
      Req("indices", "indices", TStruct("AccessorSparseIndices")),
      Req("values", "values", TStruct("AccessorSparseValues"))>>

AccessorSparseValues ==
    <<Req("buffer_view", "byteOffset", TIndex("BufferView")),
      Dflt("byte_offset", "byteOffset", TU32, 0),
      Opt("extensions", "extensions", TAny),
      Opt("extras", "extras", TAny)>>

Animation ==
    <<Opt("extensions", "extensions", TAny),
      Opt("extras", "extras", TAny),
      Req("channels", "channels", TVec(TStruct("AnimationChannel"))),
      Opt("name", "name", TAny),
      Req("samplers", "samplers", TVec(TStruct("AnimationSampler")))>>

AnimationChannel ==
    <<Req("sampler", "sampler", TIndex("Sampler")),
      Req("target", "target", TStruct("AnimationChannelTarget"))>>

AnimationChannelTarget ==
    <<Opt("extensions", "extensions", TAny),
      Opt("extras", "extras", TAny),
      Req("node", "node", TIndex("Node")),
      Req("path", "path", TStringEnum("AnimationChannelTargetPath"))>>

AnimationSampler ==
    <<Opt("extensions", "extensions", TAny),
      Opt("extras", "extras", TAny),
      Req("input", "input", TIndex("Accessor")),
      Req("interpolation", "interpolation", TStringEnum("AnimationSamplerInterpolation")),
      Req("output", "output", TIndex("Accessor"))>>

Asset ==
    <<Opt("copyright", "copyright", TAny),
      Opt("extensions", "extensions", TAny),
      Opt("extras", "extras", TAny),
      Opt("generator", "generator", TAny),
      Dflt("version", "version", TAny, asset_version_default)>>

Buffer ==
    <<Dflt("byte_length", "byteLength", TU32, 0),
      Opt("extensions", "extensions", TAny),
      Opt("extras", "extras", TAny),
      Opt("name", "name", TAny),
      Req("uri", "uri", TAny)>>

BufferView ==
    <<Req("buffer", "buffer", TIndex("Buffer")),
      Req("byte_length", "byteLength", TU32),
      Req("byte_offset", "byteOffset", TU32),
      Dflt("byte_stride", "byte_stride", TU32, 0),
      Opt("extensions", "extensions", TAny),
      Opt("extras", "extras", TAny),
      Opt("name", "name", TAny),
      Opt("target", "target", TEnum("BufferTarget"))>>

Camera ==
    <<Opt("extensions", "extensions", TAny),
      Opt("extras", "extras", TAny),
      Opt("name", "name", TAny),
      Opt("orthographic", "orthographic", TStruct("CameraOrthographic")),
      Opt("perspective", "perspective", TStruct("CameraPerspective")),
      Req("ty", "type", TAny)>>

CameraOrthographic ==
    <<Opt("extensions", "extensions", TAny),
      Opt("extras", "extras", TAny),
      Dflt("x_mag", "xmag", TAny, 0),
      Dflt("y_mag", "ymag", TAny, 0),
      Dflt("z_far", "zfar", TAny, 0),
      Dflt("z_near", "znear", TAny, 0)>>

CameraPerspective ==
    <<Dflt("aspect_ratio", "aspectRatio", TAny, 0),
      Opt("extensions", "extensions", TAny),
      Opt("extras", "extras", TAny),
      Dflt("y_fov", "yfov", TAny, 0),
      Dflt("z_far", "zfar", TAny, 0),
      Dflt("z_near", "znear", TAny, 0)>>

Image ==
    <<Opt("buffer_view", "bufferView", TIndex("BufferView")),
      Opt("extensions", "extensions", TAny),
      Opt("extras", "extras", TAny),
      Opt("mime_type", "mimeType", TAny),
      Opt("name", "name", TAny),
      Opt("uri", "uri", TAny)>>

Material ==
    <<Opt("extensions", "extensions", TAny),
      Opt("extras", "extras", TAny),
      Opt("name", "name", TAny),
      Req("pbr", "pbrMetallicRoughness", TStruct("MaterialPbrMetallicRoughness")),
      Req("normal_texture", "normalTexture", TStruct("MaterialNormalTexture")),
      Req("occlusion_texture", "occlusionTexture", TStruct("MaterialOcclusionTexture")),
      Req("emissive_texture", "emissiveTexture", TStruct("TextureInfo")),
      Dflt("emissive_factor", "emissiveFactor", TAny, <<0, 0, 0>>)>>

MaterialPbrMetallicRoughness ==
    <<Dflt("base_color_factor", "baseColorFactor", TAny,
           material_pbr_metallic_roughness_base_color_factor_default),
      Req("base_color_texture", "baseColorTexture", TStruct("TextureInfo")),
      Dflt("metallic_factor", "metallicFactor", TAny,
           material_pbr_metallic_roughness_metallic_factor_default),
      Dflt("roughness_factor", "roughnessFactor", TAny,
           material_pbr_metallic_roughness_roughness_factor_default),
      Req("metallic_roughness_texture", "metallicRoughnessTexture", TStruct("TextureInfo"))>>

MaterialNormalTexture ==
    <<Req("index", "index", TIndex("Texture")),
      Dflt("scale", "scale", TAny, material_normal_texture_scale_default),
      Dflt("tex_coord", "texCoord", TU32, 0)>>

MaterialOcclusionTexture ==
    <<Req("index", "index", TIndex("Texture")),
      Dflt("strength", "strength", TAny, material_occlusion_texture_strength_default),
      Dflt("tex_coord", "texCoord", TU32, 0)>>

Mesh ==
    <<Opt("extensions", "extensions", TAny),
      Opt("extras", "extras", TAny),
      Opt("name", "name", TAny),
      Req("primitives", "primitives", TVec(TStruct("MeshPrimitive"))),
      Dflt("weights", "weights", TVec(TAny), <<>>)>>

MeshPrimitive ==
    <<Dflt("attributes", "attributes", TMap(TIndex("Accessor")), EmptyMap),
      Opt("extensions", "extensions", TAny),
      Opt("extras", "extras", TAny),
      Opt("indices", "indices", TIndex("Accessor")),
      Req("material", "material", TIndex("Material")),
      Dflt("mode", "mode", TEnum("MeshPrimitiveMode"), MeshPrimitiveMode_default),
      Dflt("targets", "targets", TVec(TMap(TIndex("Accessor"))), <<>>)>>

Node ==
    <<Opt("camera", "camera", TIndex("Camera")),
      Dflt("children", "children", TVec(TIndex("Node")), <<>>),
      Opt("extensions", "extensions", TAny),
      Opt("extras", "extras", TAny),
      Dflt("matrix", "matrix", TAny, node_matrix_default),
      Req("mesh", "mesh", TIndex("Mesh")),
      Opt("name", "name", TAny),
      Dflt("rotation", "rotation", TAny, node_rotation_default),
      Dflt("scale", "scale", TAny, node_scale_default),
      Dflt("translation", "translation", TAny, <<0, 0, 0>>),
      Opt("skin", "skin", TIndex("Skin")),
      Opt("weights", "weights", TVec(TAny))>>

Sampler ==
    <<Opt("extensions", "extensions", TAny),
      Opt("extras", "extras", TAny),
      Dflt("mag_filter", "magFilter", TEnum("SamplerMagFilter"), SamplerMagFilter_default),
      Dflt("min_filter", "minFilter", TEnum("SamplerMinFilter"), SamplerMinFilter_default),
      Opt("name", "name", TAny),
      Dflt("wrap_s", "wrapS", TEnum("SamplerWrappingMode"), SamplerWrappingMode_default),
      Dflt("wrap_t", "wrapT", TEnum("SamplerWrappingMode"), SamplerWrappingMode_default)>>

Scene ==
    <<Opt("extensions", "extensions", TAny),
      Opt("extras", "extras", TAny),
      Opt("name", "name", TAny),
      Dflt("nodes", "nodes", TVec(TIndex("Node")), <<>>)>>

Skin ==
    <<Opt("extensions", "extensions", TAny),
      Opt("extras", "extras", TAny),
      Opt("inverse_bind_matrices", "inverseBindMatrices", TIndex("Accessor")),
      Req("joints", "joints", TVec(TIndex("Node"))),
      Opt("name", "name", TAny),
      Opt("skeleton", "skeleton", TIndex("Node"))>>

\* Texture with an optional source.
Texture_optional_source ==
    <<Dflt("data_type", "type", TEnum("TextureDataType"), TextureDataType_default),
      Opt("extensions", "extensions", TAny),
      Opt("extras", "extras", TAny),
      Opt("name", "name", TAny),
      Dflt("format", "format", TEnum("TextureFormat"), TextureFormat_default),
      Dflt("internal_format", "internalFormat", TEnum("TextureFormat"), TextureFormat_default),
      Req("sampler", "sampler", TIndex("Sampler")),
      Opt("source", "source", TIndex("Image")),
      Dflt("target", "target", TEnum("TextureTarget"), TextureTarget_default)>>

Texture ==
    <<Dflt("data_type", "type", TEnum("TextureDataType"), TextureDataType_default),
      Opt("extensions", "extensions", TAny),
      Opt("extras", "extras", TAny),
      Opt("name", "name", TAny),
      Dflt("format", "format", TEnum("TextureFormat"), TextureFormat_default),
      Dflt("internal_format", "internalFormat", TEnum("TextureFormat"), TextureFormat_default),
      Req("sampler", "sampler", TIndex("Sampler")),
      Req("source", "source", TIndex("Image")),
      Dflt("target", "target", TEnum("TextureTarget"), TextureTarget_default)>>

TextureInfo ==
    <<Req("index", "index", TIndex("Texture")),
      Dflt("tex_coord", "texCoord", TU32, 0)>>

Members(struct) ==
    CASE struct = "Root" -> Root
      [] struct = "Accessor" -> Accessor
      [] struct = "AccessorSparseIndices" -> AccessorSparseIndices
      [] struct = "AccessorSparseStorage" -> AccessorSparseStorage
      [] struct = "AccessorSparseValues" -> AccessorSparseValues
      [] struct = "Animation" -> Animation
      [] struct = "AnimationChannel" -> AnimationChannel
      [] struct = "AnimationChannelTarget" -> AnimationChannelTarget
      [] struct = "AnimationSampler" -> AnimationSampler
      [] struct = "Asset" -> Asset
      [] struct = "Buffer" -> Buffer
      [] struct = "BufferView" -> BufferView
      [] struct = "Camera" -> Camera
      [] struct = "CameraOrthographic" -> CameraOrthographic
      [] struct = "CameraPerspective" -> CameraPerspective
      [] struct = "Image" -> Image
      [] struct = "Material" -> Material
      [] struct = "MaterialPbrMetallicRoughness" -> MaterialPbrMetallicRoughness
      [] struct = "MaterialNormalTexture" -> MaterialNormalTexture
      [] struct = "MaterialOcclusionTexture" -> MaterialOcclusionTexture
      [] struct = "Mesh" -> Mesh
      [] struct = "MeshPrimitive" -> MeshPrimitive
      [] struct = "Node" -> Node
      [] struct = "Sampler" -> Sampler
      [] struct = "Scene" -> Scene
      [] struct = "Skin" -> Skin
      [] struct = "Texture" -> Texture
      [] struct = "TextureInfo" -> TextureInfo

\* The structs that carry #[serde(deny_unknown_fields)]: every struct but
\* AccessorSparseStorage.
DenyUnknownFields ==
    {"Root", "Accessor", "AccessorSparseIndices", "AccessorSparseValues",
     "Animation", "AnimationChannel", "AnimationChannelTarget",
     "AnimationSampler", "Asset", "Buffer", "BufferView", "Camera",
     "CameraOrthographic", "CameraPerspective", "Image", "Material",
     "MaterialPbrMetallicRoughness", "MaterialNormalTexture",
     "MaterialOcclusionTexture", "Mesh", "MeshPrimitive", "Node", "Sampler",
     "Scene", "Skin", "Texture", "TextureInfo"}

(***************************************************************************)
(* The derived deserializer.  A JSON object is a function from the keys    *)
(* it carries to their values.  Each key is matched against the members'   *)
(* wire names; the first member with that name takes it.  A key no member  *)
(* is named is an error under deny_unknown_fields and skipped otherwise.   *)
(* A member no key reached is None (Option), its default, or a             *)
(* missing-field error.  Where one text has several defects serde reports  *)
(* the first it meets in the text; the model reports an unknown key first, *)
(* then the values given in declaration order, then the missing members.   *)
(***************************************************************************)
Keys(ms) == {ms[i].key : i \in DOMAIN ms}

\* The value the input gives member i of the members ms, if any.
Given(ms, o, i) ==
    IF ms[i].key \in DOMAIN o /\ \A j \in 1..(i - 1) : ms[j].key # ms[i].key
    THEN Some(o[ms[i].key])
    ELSE None

u32_deserialize(w) ==
    IF w.kind = "u64" /\ w.hi = 0
    THEN Ok(w.lo)
    ELSE Err(SerdeError("InvalidValue", "u32", "value"))

\* The first error among results, in the order of their positions.
first_error(rs) ==
    IF \A i \in DOMAIN rs : IsOk(rs[i])
    THEN None
    ELSE rs[CHOOSE i \in DOMAIN rs :
              ~IsOk(rs[i]) /\ \A j \in 1..(i - 1) : IsOk(rs[j])].err

\* The position of the member named m.
member_index(ms, m) == CHOOSE i \in DOMAIN ms : ms[i].member = m

\* What member i holds: the value its key gave, None, or its default.
member_value(ms, o, rs, i) ==
    IF Given(ms, o, i) # None
    THEN IF ms[i].mode = "option" THEN Some(rs[i].val[1]) ELSE rs[i].val[1]
    ELSE IF ms[i].mode = "option" THEN None ELSE ms[i].dflt[1]

\* The struct value once every member has a result without error.
struct_value(ms, o, rs) ==
    [m \in {ms[i].member : i \in DOMAIN ms} |->
        member_value(ms, o, rs, member_index(ms, m))]

\* The results of the members the input gave a value.
given_results(ms, o, rs) ==
    [i \in DOMAIN ms |-> IF Given(ms, o, i) # None THEN rs[i] ELSE Ok(Null)]

\* The visitor reads the keys of the object first, where an unknown key or
\* a value that does not deserialize ends it, and looks for the members
\* that are missing afterwards.
struct_result(name, ms, o, rs) ==
    IF name \in DenyUnknownFields /\ DOMAIN o \ Keys(ms) # {}
    THEN Err(SerdeError("UnknownField", name, CHOOSE k \in DOMAIN o \ Keys(ms) : TRUE))
    ELSE IF first_error(given_results(ms, o, rs)) # None
    THEN Err(first_error(given_results(ms, o, rs))[1])
    ELSE IF first_error(rs) # None
    THEN Err(first_error(rs)[1])
    ELSE Ok(struct_value(ms, o, rs))

seq_result(rs) ==
    IF first_error(rs) # None
    THEN Err(first_error(rs)[1])
    ELSE Ok([i \in DOMAIN rs |-> rs[i].val[1]])

map_result(rs) ==
    IF \E k \in DOMAIN rs : ~IsOk(rs[k])
    THEN Err(rs[CHOOSE k \in DOMAIN rs : ~IsOk(rs[k])].err[1])
    ELSE Ok([k \in DOMAIN rs |-> rs[k].val[1]])

RECURSIVE deserialize(_, _)
RECURSIVE struct_deserialize(_, _, _)

deserialize(ty, w) ==
    CASE ty.kind = "Index" -> Index_deserialize(w, ty.of)
      [] ty.kind = "Enum" -> enum_number_deserialize(ty.of, w)
      [] ty.kind = "StringEnum" -> enum_string_deserialize(ty.of, w)
      [] ty.kind = "u32" -> u32_deserialize(w)
      [] ty.kind = "Any" -> Ok(w)
      [] ty.kind = "Vec" -> seq_result([i \in 1..Len(w) |-> deserialize(ty.elem, w[i])])
      [] ty.kind = "Map" -> map_result([k \in DOMAIN w |-> deserialize(ty.elem, w[k])])
      [] ty.kind = "Struct" -> struct_deserialize(ty.of, Members(ty.of), w)

struct_deserialize(name, ms, o) ==
    struct_result(name, ms, o,
        [i \in DOMAIN ms |->
            IF Given(ms, o, i) # None
            THEN deserialize(ms[i].ty, Given(ms, o, i)[1])
            ELSE IF ms[i].mode = "required"
                 THEN Err(SerdeError("MissingField", name, ms[i].key))
                 ELSE Ok(Null)])

\* serde_json::from_str::<Root>: a text that is no JSON value is a syntax
\* error, a JSON object is handed to Root's derived deserializer.
from_str(text) ==
    IF text.syntax = "bad"
    THEN Err(SerdeError("Syntax", "Root", ""))
    ELSE deserialize(TStruct("Root"), text.value)

(***************************************************************************)
(* impl Root.                                                              *)
(***************************************************************************)
\* A validator that looks at the default scene.
indices_are_valid_scene(self) == self.scene.value < Len(self.scenes)

\* fn indices_are_valid(&self) -> bool { /* TODO: Implement me */ true }
indices_are_valid(self) == TRUE

ImportOk(r) == [kind |-> "Ok", root |-> Some(r), error |-> None]
ImportErr(variant, detail) ==
    [kind |-> "Err", root |-> None,
     error |-> Some([variant |-> variant, detail |-> detail])]

\* `&self.<collection>[index.0 as usize]`: Vec indexing returns the element
\* at that position and panics when the position is not less than the length.
slice_index(v, i) ==
    IF i < Len(v)
    THEN [outcome |-> "ref", item |-> Some(v[i + 1])]
    ELSE [outcome |-> "panic", item |-> None]

Root_accessor(self, index) == slice_index(self.accessors, index.value)
Root_buffer(self, index) == slice_index(self.buffers, index.value)
Root_buffer_view(self, index) == slice_index(self.buffer_views, index.value)
Root_camera(self, index) == slice_index(self.cameras, index.value)
Root_image(self, index) == slice_index(self.images, index.value)
Root_material(self, index) == slice_index(self.materials, index.value)
Root_mesh(self, index) == slice_index(self.meshes, index.value)
Root_node(self, index) == slice_index(self.nodes, index.value)
Root_sampler(self, index) == slice_index(self.samplers, index.value)
Root_scene(self, index) == slice_index(self.scenes, index.value)
Root_skin(self, index) == slice_index(self.skins, index.value)
Root_texture(self, index) == slice_index(self.textures, index.value)

\* The entity kinds with a lookup, and the collection of Root each names.
Kinds ==
    {"Accessor", "Buffer", "BufferView", "Camera", "Image", "Material",
     "Mesh", "Node", "Sampler", "Scene", "Skin", "Texture"}

Collection(self, T) ==
    CASE T = "Accessor" -> self.accessors
      [] T = "Buffer" -> self.buffers
      [] T = "BufferView" -> self.buffer_views
      [] T = "Camera" -> self.cameras
      [] T = "Image" -> self.images
      [] T = "Material" -> self.materials
      [] T = "Mesh" -> self.meshes
      [] T = "Node" -> self.nodes
      [] T = "Sampler" -> self.samplers
      [] T = "Scene" -> self.scenes
      [] T = "Skin" -> self.skins
      [] T = "Texture" -> self.textures

\* The lookup the type of `index` selects.
Root_lookup(self, index) ==
    CASE index.tag = "Accessor" -> Root_accessor(self, index)
      [] index.tag = "Buffer" -> Root_buffer(self, index)
      [] index.tag = "BufferView" -> Root_buffer_view(self, index)
      [] index.tag = "Camera" -> Root_camera(self, index)
      [] index.tag = "Image" -> Root_image(self, index)
      [] index.tag = "Material" -> Root_material(self, index)
      [] index.tag = "Mesh" -> Root_mesh(self, index)
      [] index.tag = "Node" -> Root_node(self, index)
      [] index.tag = "Sampler" -> Root_sampler(self, index)
      [] index.tag = "Scene" -> Root_scene(self, index)
      [] index.tag = "Skin" -> Root_skin(self, index)
      [] index.tag = "Texture" -> Root_texture(self, index)

(***************************************************************************)
(* The input texts.                                                        *)
(***************************************************************************)
SeqsUpTo(S, n) == UNION {[1..k -> S] : k \in 0..n}

With(o, k, v) == [x \in DOMAIN o \cup {k} |-> IF x = k THEN v ELSE o[x]]
Without(o, k) == [x \in DOMAIN o \ {k} |-> o[x]]
\* o with the key "foo", which no struct declares, when u is TRUE.
Foo(o, u) == IF u THEN With(o, "foo", Num(1)) ELSE o

F32Code == Num(AccessorDataType.F32)

WAsset == [generator |-> "model"]
WMesh == [primitives |-> <<>>]
WBuffer == [uri |-> "data.bin"]
WNode(children, mesh) == [children |-> children, mesh |-> mesh]
WScene(nodes) == [nodes |-> nodes]
WBufferView(buffer) == [buffer |-> buffer, byteLength |-> Num(1), byteOffset |-> Num(0)]
WAccessor(bufferView, componentType) ==
    [bufferView |-> bufferView, byteOffset |-> Num(0), count |-> Num(1),
     componentType |-> componentType, type |-> "SCALAR"]
WSparseIndices(byteOffset) == [byteOffset |-> byteOffset, data_type |-> F32Code]
WSparseValues(byteOffset) == [byteOffset |-> byteOffset]
WSparse(indices, values) == [count |-> Num(1), indices |-> indices, values |-> values]

\* {"asset": {...}, "meshes": [{"primitives": []}]}
BaseDoc == [asset |-> WAsset, meshes |-> <<WMesh>>]

\* Index values on the wire: every position of a collection of up to n
\* entities, the first position past it, and one far outside.
IdxWire(n) == {Num(i) : i \in 0..n} \cup {Num(FarIdx)}

PlainNode == [mesh |-> Num(0)]
PlainNodes(n) == [i \in 1..n |-> PlainNode]

\* Index values on the wire that name one of n entities.
InWire(n) == {Num(i) : i \in 0..(n - 1)}

\* Node graphs: up to MaxNodes nodes, each with a list of up to MaxLen
\* children among the MaxNodes positions, no scene.
CycleDocs ==
    {With(BaseDoc, "nodes", [i \in 1..Len(cs) |-> WNode(cs[i], Num(0))]) :
        cs \in SeqsUpTo(SeqsUpTo(InWire(MaxNodes), MaxLen), MaxNodes)}

\* Up to MaxLen scenes over MaxNodes childless nodes: the first scene lists
\* up to MaxLen nodes, the others none; with and without the scene member.
SceneDocsWith ==
    {With(With(With(BaseDoc, "nodes", PlainNodes(MaxNodes)),
               "scenes", [i \in 1..n |-> WScene(IF i = 1 THEN sn ELSE <<>>)]),
          "scene", Num(sc)) :
        sn \in SeqsUpTo(IdxWire(MaxNodes), MaxLen),
        n \in 0..MaxLen,
        sc \in 0..MaxLen}

SceneDocs == SceneDocsWith \cup {Without(d, "scene") : d \in SceneDocsWith}

\* One parent node and one scene, each claiming some of the nodes.
OwnerDocs ==
    {With(With(BaseDoc, "nodes", <<WNode(cs, Num(0))>> \o PlainNodes(MaxNodes)),
          "scenes", <<WScene(sn)>>) :
        cs \in SeqsUpTo(InWire(MaxNodes + 1), MaxLen + 1),
        sn \in SeqsUpTo(InWire(MaxNodes + 1), MaxLen)}

\* Accessors, buffer views and buffers; the accessors' index values are of
\* one and two words.
RefWire == {U64(h, l) : h \in 0..MaxHi, l \in 0..MaxRefs}

RefDocs ==
    {With(With(With(With(BaseDoc, "scenes", <<WScene(<<>>)>>),
                    "accessors", [i \in 1..Len(as) |-> WAccessor(as[i], F32Code)]),
               "bufferViews", [i \in 1..Len(bs) |-> WBufferView(bs[i])]),
          "buffers", [i \in 1..n |-> WBuffer]) :
        as \in SeqsUpTo(RefWire, MaxRefs),
        bs \in SeqsUpTo(IdxWire(MaxRefs), MaxRefs),
        n \in 0..MaxRefs}

\* One object of every struct the documents above use, all index values in
\* range, each object with or without a key its struct does not declare.
SchemaDoc(u) ==
    Foo([asset |-> Foo(WAsset, u[2]),
         accessors |->
            <<Foo(With(WAccessor(Num(0), F32Code), "sparse",
                       Foo(WSparse(Foo(WSparseIndices(Num(0)), u[5]),
                                   Foo(WSparseValues(Num(0)), u[6])), u[4])), u[3])>>,
         bufferViews |-> <<Foo(WBufferView(Num(0)), u[7])>>,
         buffers |-> <<Foo(WBuffer, u[8])>>,
         meshes |-> <<Foo(WMesh, u[9])>>,
         nodes |-> <<Foo(WNode(<<>>, Num(0)), u[10])>>,
         scene |-> Num(0),
         scenes |-> <<Foo(WScene(<<Num(0)>>), u[11])>>], u[1])

\* The objects of a SchemaDoc, by the position of their flag in u.
SchemaObjects == 1..11

\* At most two of the objects carry the undeclared key.
SchemaDocs ==
    {SchemaDoc([i \in SchemaObjects |-> i \in S]) :
        S \in {T \in SUBSET SchemaObjects : Cardinality(T) <= 2}}

\* Enumeration codes, index values that are no unsigned integer, and
\* required members left out.
Negative(n) == [kind |-> "i64", hi |-> 0, lo |-> n]

FieldDoc(bv, ct) ==
    With(With(With(With(BaseDoc, "scenes", <<WScene(<<>>)>>),
                   "accessors", <<WAccessor(bv, ct)>>),
              "bufferViews", <<WBufferView(Num(0))>>),
         "buffers", <<WBuffer>>)

FieldDocsFull ==
    {FieldDoc(bv, ct) : bv \in {Num(0), Negative(1)}, ct \in {F32Code, Num(BadCode)}}

Drop(d, coll, key) == With(d, coll, <<Without(d[coll][1], key)>>)

FieldDocs ==
    FieldDocsFull
    \cup {Without(d, "asset") : d \in FieldDocsFull}
    \cup {Drop(d, "accessors", "bufferView") : d \in FieldDocsFull}
    \cup {Drop(d, "accessors", "componentType") : d \in FieldDocsFull}
    \cup {Drop(d, "bufferViews", "buffer") : d \in FieldDocsFull}
    \cup {Drop(d, "buffers", "uri") : d \in FieldDocsFull}

\* o with the key k when its value is given.
Put(o, k, opt) == IF opt = None THEN o ELSE With(o, k, opt[1])

WTextureInfo == [index |-> Num(0)]
WImage == [uri |-> "image.png"]

\* The members with a default that the documents below give or leave out,
\* each with the values they give it: the default itself and another value
\* (a float is modelled by an integer, a code by its wire number).
SuppliedDefault ==
    [version |-> "2.0",
     matrix |-> <<<<1, 0, 0, 0>>, <<0, 1, 0, 0>>, <<0, 0, 1, 0>>, <<0, 0, 0, 1>>>>,
     rotation |-> <<0, 0, 0, 1>>,
     scale |-> <<1, 1, 1>>,
     translation |-> <<0, 0, 0>>,
     magFilter |-> Num(9729),
     minFilter |-> Num(9986),
     wrapS |-> Num(10497),
     wrapT |-> Num(10497),
     type |-> Num(5121),
     format |-> Num(6408),
     internalFormat |-> Num(6408),
     target |-> Num(3553),
     mode |-> Num(4),
     baseColorFactor |-> <<1, 1, 1, 1>>,
     metallicFactor |-> 1,
     roughnessFactor |-> 1,
     normalScale |-> 1,
     strength |-> 1,
     scene |-> Num(0)]

SuppliedOther ==
    [version |-> "1.0",
     matrix |-> <<<<2, 0, 0, 0>>, <<0, 2, 0, 0>>, <<0, 0, 2, 0>>, <<0, 0, 0, 1>>>>,
     rotation |-> <<1, 0, 0, 0>>,
     scale |-> <<2, 2, 2>>,
     translation |-> <<1, 2, 3>>,
     magFilter |-> Num(9728),
     minFilter |-> Num(9728),
     wrapS |-> Num(33071),
     wrapT |-> Num(33648),
     type |-> Num(33635),
     format |-> Num(6407),
     internalFormat |-> Num(6406),
     target |-> Num(3553),
     mode |-> Num(0),
     baseColorFactor |-> <<0, 0, 0, 1>>,
     metallicFactor |-> 0,
     roughnessFactor |-> 0,
     normalScale |-> 2,
     strength |-> 0,
     scene |-> Num(1)]

DefaultableFields == DOMAIN SuppliedDefault

\* One object of every struct with such a member; f gives each member's
\* value, or None to leave it out.
DefaultsDoc(f) ==
    Put([asset |-> Put(WAsset, "version", f.version),
         nodes |->
            <<Put(Put(Put(Put(PlainNode, "matrix", f.matrix),
                          "rotation", f.rotation),
                      "scale", f.scale),
                  "translation", f.translation)>>,
         samplers |->
            <<Put(Put(Put(Put(EmptyMap, "magFilter", f.magFilter),
                          "minFilter", f.minFilter),
                      "wrapS", f.wrapS),
                  "wrapT", f.wrapT)>>,
         images |-> <<WImage>>,
         textures |->
            <<Put(Put(Put(Put([sampler |-> Num(0), source |-> Num(0)],
                              "type", f.type),
                          "format", f.format),
                      "internalFormat", f.internalFormat),
                  "target", f.target)>>,
         materials |->
            <<[pbrMetallicRoughness |->
                  Put(Put(Put([baseColorTexture |-> WTextureInfo,
                               metallicRoughnessTexture |-> WTextureInfo],
                              "baseColorFactor", f.baseColorFactor),
                          "metallicFactor", f.metallicFactor),
                      "roughnessFactor", f.roughnessFactor),
               normalTexture |-> Put(WTextureInfo, "scale", f.normalScale),
               occlusionTexture |-> Put(WTextureInfo, "strength", f.strength),
               emissiveTexture |-> WTextureInfo]>>,
         meshes |-> <<[primitives |-> <<Put([material |-> Num(0)], "mode", f.mode)>>]>>,
         scenes |-> <<WScene(<<Num(0)>>), WScene(<<>>)>>],
        "scene", f.scene)

NoneGiven == [k \in DefaultableFields |-> None]

\* Nothing given; one member given, its default or another value; every
\* member given; and the scene given as a number of two words.
DefaultsChoices ==
    {NoneGiven,
     [k \in DefaultableFields |-> Some(SuppliedDefault[k])],
     [k \in DefaultableFields |-> Some(SuppliedOther[k])]}
    \cup {[NoneGiven EXCEPT ![k] = Some(SuppliedDefault[k])] : k \in DefaultableFields}
    \cup {[NoneGiven EXCEPT ![k] = Some(SuppliedOther[k])] : k \in DefaultableFields}
    \cup {[NoneGiven EXCEPT !.scene = Some(U64(h, l))] : h \in 1..MaxHi, l \in 0..1}

DefaultDocs == {DefaultsDoc(f) : f \in DefaultsChoices}

\* Documents the parser accepts but for one required member that was left
\* out, each with the struct and the key of that member.
Dropped(doc, object, field) == [doc |-> doc, object |-> object, field |-> field]

CleanDrops ==
    {Dropped(Without(FieldDoc(Num(0), F32Code), "asset"), "Root", "asset"),
     Dropped(Drop(FieldDoc(Num(0), F32Code), "accessors", "bufferView"),
             "Accessor", "bufferView"),
     Dropped(Drop(FieldDoc(Num(0), F32Code), "accessors", "componentType"),
             "Accessor", "componentType"),
     Dropped(Drop(FieldDoc(Num(0), F32Code), "accessors", "type"), "Accessor", "type"),
     Dropped(Drop(FieldDoc(Num(0), F32Code), "bufferViews", "buffer"),
             "BufferView", "buffer"),
     Dropped(Drop(FieldDoc(Num(0), F32Code), "buffers", "uri"), "Buffer", "uri"),
     Dropped(Drop(DefaultsDoc(NoneGiven), "textures", "source"), "Texture", "source"),
     Dropped(Drop(DefaultsDoc(NoneGiven), "textures", "sampler"), "Texture", "sampler"),
     Dropped(Drop(DefaultsDoc(NoneGiven), "nodes", "mesh"), "Node", "mesh")}

RequiredDocs == {c.doc : c \in CleanDrops}

\* One animation with one channel whose sampler index is s, k samplers of
\* its own, and r texture samplers in the Root.
WAnimationSampler == [input |-> Num(0), interpolation |-> "LINEAR", output |-> Num(0)]
WAnimationChannel(s) ==
    [sampler |-> s, target |-> [node |-> Num(0), path |-> "rotation"]]

AnimationDocs ==
    {With(With(With(FieldDoc(Num(0), F32Code), "nodes", PlainNodes(1)),
               "samplers", [i \in 1..r |-> EmptyMap]),
          "animations",
          <<[channels |-> <<WAnimationChannel(s)>>,
             samplers |-> [i \in 1..k |-> WAnimationSampler]]>>) :
        s \in IdxWire(MaxLen), k \in 0..MaxLen, r \in 0..MaxLen}

\* The sparse indices or values object o of an accessor, with or without
\* "bufferView" and "byteOffset".
SparseObject(o, b, off) == Put(Put(o, "bufferView", b), "byteOffset", off)

SparseDocs ==
    {With(With(With(With(BaseDoc, "scenes", <<WScene(<<>>)>>),
                    "accessors",
                    <<With(WAccessor(Num(0), F32Code), "sparse",
                           WSparse(SparseObject([data_type |-> F32Code], b, off),
                                   SparseObject(EmptyMap, b, off)))>>),
               "bufferViews", <<WBufferView(Num(0)), WBufferView(Num(0))>>),
          "buffers", <<WBuffer>>) :
        b \in {None, Some(Num(0))}, off \in {None, Some(Num(1))}}

Documents ==
    CycleDocs \cup SceneDocs \cup OwnerDocs \cup RefDocs \cup SchemaDocs \cup FieldDocs
    \cup DefaultDocs \cup RequiredDocs \cup AnimationDocs \cup SparseDocs

Texts ==
    {[syntax |-> "ok", value |-> d] : d \in Documents}
    \cup {[syntax |-> "bad", value |-> BaseDoc]}

(***************************************************************************)
(* Root::import_from_str, step by step.                                    *)
(***************************************************************************)
NoCodec == cin = None /\ cval = None /\ cout = None

Init ==
    /\ json = None
    /\ pc = "idle"
    /\ parsed = None
    /\ validatorRuns = 0
    /\ result = None
    /\ lookup = None
    /\ NoCodec
    /\ verdicts = <<>>

\* A caller hands a text to import_from_str.
Call ==
    /\ pc = "idle"
    /\ \E text \in Texts : json' = Some(text)
    /\ pc' = "deserialize"
    /\ UNCHANGED <<parsed, validatorRuns, result, lookup, cin, cval, cout, verdicts>>

\* Deserialize without the integrity check: the parsed Root is returned as
\* it is.
Deserialize_unvalidated ==
    /\ pc = "deserialize"
    /\ LET r == from_str(json[1])
       IN  /\ parsed' = Some(r)
           /\ result' = Some(IF IsOk(r)
                             THEN ImportOk(r.val[1])
                             ELSE ImportErr("Deserialize", r.err[1]))
    /\ pc' = "done"
    /\ UNCHANGED <<json, validatorRuns, lookup, cin, cval, cout, verdicts>>

\* let root: Root = serde_json::from_str(json)
\*     .map_err(|err| ImportError::Deserialize(err))?;
Deserialize ==
    /\ pc = "deserialize"
    /\ LET r == from_str(json[1])
       IN  /\ parsed' = Some(r)
           /\ IF IsOk(r)
              THEN /\ pc' = "validate"
                   /\ UNCHANGED result
              ELSE /\ pc' = "done"
                   /\ result' = Some(ImportErr("Deserialize", r.err[1]))
    /\ UNCHANGED <<json, validatorRuns, lookup, cin, cval, cout, verdicts>>

\* if root.indices_are_valid() { Ok(root) }
\* else { Err(ImportError::Invalid("index out of range".to_string())) }
Validate ==
    /\ pc = "validate"
    /\ validatorRuns' = validatorRuns + 1
    /\ LET root == parsed[1].val[1]
       IN  result' = Some(IF indices_are_valid(root)
                          THEN ImportOk(root)
                          ELSE ImportErr("Invalid", "index out of range"))
    /\ pc' = "done"
    /\ UNCHANGED <<json, parsed, lookup, cin, cval, cout, verdicts>>

Next == Call \/ Deserialize \/ Validate

Spec == Init /\ [][Next]_vars

(***************************************************************************)
(* The lookups of a returned Root.                                         *)
(***************************************************************************)
\* The texts whose documents the lookups are tried on.
LookupTexts ==
    {[syntax |-> "ok", value |-> d] : d \in SceneDocs \cup OwnerDocs \cup RefDocs}

CallLookup ==
    /\ pc = "idle"
    /\ \E text \in LookupTexts : json' = Some(text)
    /\ pc' = "deserialize"
    /\ UNCHANGED <<parsed, validatorRuns, result, lookup, cin, cval, cout, verdicts>>

\* Any Index<T> a caller can hold: Index<T> is Copy and Deserialize, so its
\* value need not come from the Root it is used on.
LookupIndices == {Index_new(i, T) : i \in (0..MaxNodes) \cup {FarIdx}, T \in Kinds}

\* root.accessor(index), root.buffer(index), ..., root.texture(index)
Lookup ==
    /\ pc = "done"
    /\ result[1].kind = "Ok"
    /\ \E index \in LookupIndices :
          lookup' = Some([index |-> index,
                          res |-> Root_lookup(result[1].root[1], index)])
    /\ UNCHANGED <<json, pc, parsed, validatorRuns, result, cin, cval, cout, verdicts>>

NextLookup == CallLookup \/ Deserialize \/ Validate \/ Lookup

SpecLookup == Init /\ [][NextLookup]_vars

(***************************************************************************)
(* Every read of a returned Root: the lookups, the slice accessors, and    *)
(* the validator run again.  All of them take &self.                       *)
(***************************************************************************)
ReadTexts ==
    {[syntax |-> "ok", value |-> d] :
        d \in FieldDocsFull
              \cup {With(With(BaseDoc, "nodes", PlainNodes(n)),
                          "scenes", <<WScene(<<Num(0)>>)>>) : n \in 1..MaxLen}}

CallRead ==
    /\ pc = "idle"
    /\ \E text \in ReadTexts : json' = Some(text)
    /\ pc' = "deserialize"
    /\ UNCHANGED <<parsed, validatorRuns, result, lookup, cin, cval, cout, verdicts>>

\* The methods of Root that return a member whole.
SliceNames ==
    {"accessors", "asset", "buffers", "buffer_views", "cameras",
     "extensions_used", "extensions_required", "images", "materials", "meshes",
     "nodes", "samplers", "scenes", "skins", "textures"}

\* pub fn accessors(&self) -> &[Accessor] { &self.accessors }, and the like:
\* every one returns the member of its own name.
Root_slice(self, name) == self[name]

\* A slice accessor that empties the member it hands out.
Slice_draining ==
    /\ pc = "done"
    /\ result[1].kind = "Ok"
    /\ \E name \in SliceNames :
          /\ lookup' = Some([slice |-> name,
                             res |-> Root_slice(result[1].root[1], name)])
          /\ result' = Some([result[1] EXCEPT
                                !.root = Some([result[1].root[1] EXCEPT ![name] = <<>>])])
    /\ UNCHANGED <<json, pc, parsed, validatorRuns, cin, cval, cout, verdicts>>

\* root.accessors(), root.asset(), ..., root.textures()
Slice ==
    /\ pc = "done"
    /\ result[1].kind = "Ok"
    /\ \E name \in SliceNames :
          lookup' = Some([slice |-> name,
                          res |-> Root_slice(result[1].root[1], name)])
    /\ UNCHANGED <<json, pc, parsed, validatorRuns, result, cin, cval, cout, verdicts>>

\* A validator whose answer depends on how often it has run.
Revalidate_counting ==
    /\ pc = "done"
    /\ result[1].kind = "Ok"
    /\ Len(verdicts) < MaxRuns
    /\ verdicts' = Append(verdicts,
                          indices_are_valid(result[1].root[1]) /\ Len(verdicts) = 0)
    /\ UNCHANGED <<json, pc, parsed, validatorRuns, result, lookup, cin, cval, cout>>

\* root.indices_are_valid() once more, on the Root that import returned.
Revalidate ==
    /\ pc = "done"
    /\ result[1].kind = "Ok"
    /\ Len(verdicts) < MaxRuns
    /\ verdicts' = Append(verdicts, indices_are_valid(result[1].root[1]))
    /\ UNCHANGED <<json, pc, parsed, validatorRuns, result, lookup, cin, cval, cout>>

NextRead == CallRead \/ Deserialize \/ Validate \/ Lookup \/ Slice \/ Revalidate

SpecRead == Init /\ [][NextRead]_vars

(***************************************************************************)
(* The scalar codec on its own: one wire value is decoded, and what was    *)
(* decoded is encoded again.                                               *)
(***************************************************************************)
WireNumbers ==
    {[kind |-> k, hi |-> h, lo |-> l] :
        k \in {"u64", "i64"}, h \in 0..MaxHi, l \in 0..MaxLo}

AllCodes == UNION {EnumCodes(name) : name \in EnumNames}

CodeInputs ==
    {c \in UNION {(d - CodeSpan)..(d + CodeSpan) : d \in AllCodes} : c >= 0}
    \cup {BadCode}

CodecInputs ==
    {[codec |-> "Index", of |-> T, w |-> w] : T \in {"Node", "Scene"}, w \in WireNumbers}
    \cup {[codec |-> "Enum", of |-> name, w |-> U64(h, c)] :
            name \in EnumNames, h \in 0..MaxHi, c \in CodeInputs}

InitCodec ==
    /\ json = None
    /\ pc = "idle"
    /\ parsed = None
    /\ validatorRuns = 0
    /\ result = None
    /\ lookup = None
    /\ cin \in {Some(i) : i \in CodecInputs}
    /\ cval = None
    /\ cout = None
    /\ verdicts = <<>>

DecodeIndex ==
    /\ cin[1].codec = "Index"
    /\ cval = None
    /\ cval' = Some(Index_deserialize(cin[1].w, cin[1].of))
    /\ UNCHANGED <<json, pc, parsed, validatorRuns, result, lookup, cin, cout, verdicts>>

EncodeIndex ==
    /\ cin[1].codec = "Index"
    /\ cval # None /\ IsOk(cval[1])
    /\ cout = None
    /\ cout' = Some(Index_serialize(cval[1].val[1]))
    /\ UNCHANGED <<json, pc, parsed, validatorRuns, result, lookup, cin, cval, verdicts>>

DecodeEnum ==
    /\ cin[1].codec = "Enum"
    /\ cval = None
    /\ cval' = Some(enum_number_deserialize(cin[1].of, cin[1].w))
    /\ UNCHANGED <<json, pc, parsed, validatorRuns, result, lookup, cin, cout, verdicts>>

EncodeEnum ==
    /\ cin[1].codec = "Enum"
    /\ cval # None /\ IsOk(cval[1])
    /\ cout = None
    /\ cout' = Some(enum_number_serialize(cin[1].of, cval[1].val[1]))
    /\ UNCHANGED <<json, pc, parsed, validatorRuns, result, lookup, cin, cval, verdicts>>

NextCodec == DecodeIndex \/ EncodeIndex \/ DecodeEnum \/ EncodeEnum

SpecCodec == InitCodec /\ [][NextCodec]_vars

(***************************************************************************)
(* What the properties below speak about.                                  *)
(***************************************************************************)
\* import_from_str returned Ok(root).
Returned == result # None /\ result[1].kind = "Ok"
ReturnedRoot == result[1].root[1]

\* import_from_str returned, and serde_json::from_str had produced a Root.
ParsedOk == parsed # None /\ IsOk(parsed[1])
ParsedRoot == parsed[1].val[1]

\* Every Index<T> a value of type ty holds, members of members included.
RECURSIVE Refs(_, _)
RECURSIVE MemberRefs(_, _)

Refs(ty, v) ==
    CASE ty.kind = "Index" -> {v}
      [] ty.kind = "Vec" -> UNION {Refs(ty.elem, v[i]) : i \in 1..Len(v)}
      [] ty.kind = "Map" -> UNION {Refs(ty.elem, v[k]) : k \in DOMAIN v}
      [] ty.kind = "Struct" ->
            UNION {MemberRefs(Members(ty.of)[i], v) : i \in DOMAIN Members(ty.of)}
      [] OTHER -> {}

MemberRefs(m, s) ==
    IF m.mode = "option"
    THEN IF s[m.member] = None THEN {} ELSE Refs(m.ty, s[m.member][1])
    ELSE Refs(m.ty, s[m.member])

InRange(self, index) == index.value < Len(Collection(self, index.tag))

\* The indices of a Root that point past the end of their collection.
OutOfRangeRefs(self) ==
    {index \in Refs(TStruct("Root"), self) : ~InRange(self, index)}

\* The node-children relation, over positions 1..Len(nodes).
Child(nodes, i) ==
    {nodes[i].children[k].value + 1 : k \in DOMAIN nodes[i].children}
        \cap DOMAIN nodes

RECURSIVE Descendants(_, _, _)
Descendants(nodes, S, n) ==
    IF n = 0
    THEN S
    ELSE Descendants(nodes, S \cup UNION {Child(nodes, i) : i \in S}, n - 1)

HasCycle(nodes) ==
    \E i \in DOMAIN nodes : i \in Descendants(nodes, Child(nodes, i), Len(nodes))

\* The entries of children lists and scene nodes lists that name node j.
Claimants(self, j) ==
    UNION {{<<"node", i, k>> :
                k \in {k \in DOMAIN self.nodes[i].children :
                          self.nodes[i].children[k].value = j}} :
            i \in DOMAIN self.nodes}
    \cup
    UNION {{<<"scene", s, k>> :
                k \in {k \in DOMAIN self.scenes[s].nodes :
                          self.scenes[s].nodes[k].value = j}} :
            s \in DOMAIN self.scenes}

\* Some object of the wire value w, read as type ty, carries a key its
\* struct does not declare.
RECURSIVE CarriesUnknownField(_, _)
CarriesUnknownField(ty, w) ==
    CASE ty.kind = "Struct" ->
            \/ DOMAIN w \ Keys(Members(ty.of)) # {}
            \/ \E i \in DOMAIN Members(ty.of) :
                  /\ Given(Members(ty.of), w, i) # None
                  /\ CarriesUnknownField(Members(ty.of)[i].ty,
                                         Given(Members(ty.of), w, i)[1])
      [] ty.kind = "Vec" -> \E i \in 1..Len(w) : CarriesUnknownField(ty.elem, w[i])
      [] ty.kind = "Map" -> \E k \in DOMAIN w : CarriesUnknownField(ty.elem, w[k])
      [] OTHER -> FALSE

(***************************************************************************)
(* Properties of import_from_str (Spec).                                   *)
(***************************************************************************)
\* C1: whenever import_from_str returns Ok, every typed index stored
\* anywhere in the returned Root is strictly less than the length of the
\* collection its type names.
C1_ReturnedIndicesInRange ==
    Returned => OutOfRangeRefs(ReturnedRoot) = {}

\* C3: import succeeds only if scenes is non-empty and Root.scene is less
\* than the number of scenes, also when scene took its default 0.
C3_ReturnedSceneResolves ==
    Returned =>
        /\ Len(ReturnedRoot.scenes) > 0
        /\ Index_value(ReturnedRoot.scene) < Len(ReturnedRoot.scenes)

\* C4: a parsed document whose node-children relation has a cycle is never
\* returned: its import ends in a validation error.
C4_CyclicDocumentFails ==
    (pc = "done" /\ ParsedOk /\ HasCycle(ParsedRoot.nodes)) =>
        /\ result[1].kind = "Err"
        /\ result[1].error[1].variant = "Invalid"

\* C5: in every returned document each node is claimed at most once across
\* all node children lists and all scene nodes lists taken together.
C5_ReturnedNodesHaveOneOwner ==
    Returned =>
        \A j \in 0..(Len(ReturnedRoot.nodes) - 1) :
            Cardinality(Claimants(ReturnedRoot, j)) <= 1

\* C6: a parsed document with k >= 1 out-of-range typed indices makes the
\* import fail with a validation error (that carries one record for each).
C6_OutOfRangeIsReported ==
    (pc = "done" /\ ParsedOk /\ OutOfRangeRefs(ParsedRoot) # {}) =>
        /\ result[1].kind = "Err"
        /\ result[1].error[1].variant = "Invalid"

\* C7: an input in which any object carries a field its struct does not
\* declare aborts the parse with an unknown-field error; no Root is produced.
C7_UnknownFieldAborts ==
    (pc = "done" /\ json[1].syntax = "ok"
        /\ CarriesUnknownField(TStruct("Root"), json[1].value)) =>
        /\ result[1].kind = "Err"
        /\ result[1].error[1].variant = "Deserialize"
        /\ result[1].error[1].detail.type = "UnknownField"

\* C8: import_from_str returns a Root only when parsing and the validator
\* both succeeded: the validator runs exactly once on every parsed Root,
\* after the parse and before the return; a parse error ends the import
\* without a validator run; a failure hands the caller an error and no Root,
\* the Deserialize variant for the parser and the Invalid variant for the
\* validator; the Root returned is the Root that was parsed and validated.
C8_ReturnsOnlyParsedAndValidated ==
    /\ result # None => pc = "done"
    /\ validatorRuns > 0 => ParsedOk
    /\ (pc = "done" /\ ParsedOk) => validatorRuns = 1
    /\ (pc = "done" /\ parsed # None /\ ~IsOk(parsed[1])) =>
          /\ validatorRuns = 0
          /\ result[1] = ImportErr("Deserialize", parsed[1].err[1])
    /\ Returned =>
          /\ ParsedOk
          /\ validatorRuns = 1
          /\ indices_are_valid(ParsedRoot)
          /\ result[1] = ImportOk(ParsedRoot)
    /\ (result # None /\ result[1].kind = "Err") =>
          /\ result[1].root = None
          /\ result[1].error[1].variant \in {"Deserialize", "Invalid"}
          /\ result[1].error[1].variant = "Invalid" <=> ParsedOk

\* A text was parsed, validated once, and its Root returned.
C8_Witness ==
    /\ pc = "done"
    /\ Returned
    /\ validatorRuns = 1
    /\ result[1].root = Some(ParsedRoot)

\* The document that was handed to import_from_str.
Wire == json[1].value

\* A member read as it is: held is the value the object o gives under key,
\* or the constant when o has no such key.
HeldOr(o, key, held, constant) ==
    IF key \in DOMAIN o THEN held = o[key] ELSE held = constant

\* A member of a numeric-coded enumeration: held is the variant of the code
\* o gives under key, or the constant variant when o has no such key.
HeldVariantOr(name, o, key, held, constant) ==
    IF key \in DOMAIN o
    THEN enum_number_serialize(name, held) = o[key]
    ELSE held = constant

\* The defaultable members of every struct but Root.
MembersInjected ==
    /\ HeldOr(Wire.asset, "version", ParsedRoot.asset.version, "2.0")
    /\ \A i \in DOMAIN ParsedRoot.nodes :
          /\ HeldOr(Wire.nodes[i], "matrix", ParsedRoot.nodes[i].matrix,
                    <<<<1, 0, 0, 0>>, <<0, 1, 0, 0>>, <<0, 0, 1, 0>>, <<0, 0, 0, 1>>>>)
          /\ HeldOr(Wire.nodes[i], "rotation", ParsedRoot.nodes[i].rotation, <<0, 0, 0, 1>>)
          /\ HeldOr(Wire.nodes[i], "scale", ParsedRoot.nodes[i].scale, <<1, 1, 1>>)
          /\ HeldOr(Wire.nodes[i], "translation", ParsedRoot.nodes[i].translation, <<0, 0, 0>>)
    /\ \A i \in DOMAIN ParsedRoot.samplers :
          /\ HeldVariantOr("SamplerMagFilter", Wire.samplers[i], "magFilter",
                           ParsedRoot.samplers[i].mag_filter, "Linear")
          /\ HeldVariantOr("SamplerMinFilter", Wire.samplers[i], "minFilter",
                           ParsedRoot.samplers[i].min_filter, "NearestMipmapLinear")
          /\ HeldVariantOr("SamplerWrappingMode", Wire.samplers[i], "wrapS",
                           ParsedRoot.samplers[i].wrap_s, "Repeat")
          /\ HeldVariantOr("SamplerWrappingMode", Wire.samplers[i], "wrapT",
                           ParsedRoot.samplers[i].wrap_t, "Repeat")
    /\ \A i \in DOMAIN ParsedRoot.textures :
          /\ HeldVariantOr("TextureDataType", Wire.textures[i], "type",
                           ParsedRoot.textures[i].data_type, "U8")
          /\ HeldVariantOr("TextureFormat", Wire.textures[i], "format",
                           ParsedRoot.textures[i].format, "Rgba")
          /\ HeldVariantOr("TextureFormat", Wire.textures[i], "internalFormat",
                           ParsedRoot.textures[i].internal_format, "Rgba")
          /\ HeldVariantOr("TextureTarget", Wire.textures[i], "target",
                           ParsedRoot.textures[i].target, "Texture2d")
    /\ \A i \in DOMAIN ParsedRoot.meshes :
          \A j \in DOMAIN ParsedRoot.meshes[i].primitives :
             HeldVariantOr("MeshPrimitiveMode", Wire.meshes[i].primitives[j], "mode",
                           ParsedRoot.meshes[i].primitives[j].mode, "Triangles")
    /\ \A i \in DOMAIN ParsedRoot.materials :
          /\ HeldOr(Wire.materials[i].pbrMetallicRoughness, "baseColorFactor",
                    ParsedRoot.materials[i].pbr.base_color_factor, <<1, 1, 1, 1>>)
          /\ HeldOr(Wire.materials[i].pbrMetallicRoughness, "metallicFactor",
                    ParsedRoot.materials[i].pbr.metallic_factor, 1)
          /\ HeldOr(Wire.materials[i].pbrMetallicRoughness, "roughnessFactor",
                    ParsedRoot.materials[i].pbr.roughness_factor, 1)
          /\ HeldOr(Wire.materials[i].normalTexture, "scale",
                    ParsedRoot.materials[i].normal_texture.scale, 1)
          /\ HeldOr(Wire.materials[i].occlusionTexture, "strength",
                    ParsedRoot.materials[i].occlusion_texture.strength, 1)

\* Root.scene: 0 when the document has no "scene", else the number given.
SceneInjected ==
    IF "scene" \in DOMAIN Wire
    THEN Index_serialize(ParsedRoot.scene) = Wire.scene
    ELSE Index_value(ParsedRoot.scene) = 0

\* C11: for every defaultable member, a parsed document holds the documented
\* constant when the input object leaves the member out, and the value the
\* input gives when it is there.
C11_DefaultsInjected ==
    ParsedOk => (MembersInjected /\ SceneInjected)

\* The same for every input whose "scene", if given, is less than 2^32:
\* the part of C11 that the parser keeps.
DefaultsInjectedBelowTwoTo32 ==
    (ParsedOk /\ ("scene" \in DOMAIN Wire => Wire.scene.hi = 0)) =>
        (MembersInjected /\ SceneInjected)

\* Documents in which every defaultable member was left out, and in which
\* every one was given a value that is not its default, were parsed.
DefaultsInjectedWitness ==
    /\ ParsedOk
    /\ Len(ParsedRoot.samplers) > 0
    /\ \/ DOMAIN Wire.samplers[1] = {} /\ DOMAIN Wire.nodes[1] = {"mesh"}
       \/ ParsedRoot.samplers[1].mag_filter = "Nearest"
            /\ ParsedRoot.nodes[1].scale = <<2, 2, 2>>

\* Some object of the wire value w, read as type ty, is an object of the
\* struct `object` without the key `field`.
RECURSIVE LacksKey(_, _, _, _)
LacksKey(ty, w, object, field) ==
    CASE ty.kind = "Struct" ->
            \/ ty.of = object /\ field \notin DOMAIN w
            \/ \E i \in DOMAIN Members(ty.of) :
                  /\ Given(Members(ty.of), w, i) # None
                  /\ LacksKey(Members(ty.of)[i].ty,
                              Given(Members(ty.of), w, i)[1], object, field)
      [] ty.kind = "Vec" -> \E i \in 1..Len(w) : LacksKey(ty.elem, w[i], object, field)
      [] ty.kind = "Map" -> \E k \in DOMAIN w : LacksKey(ty.elem, w[k], object, field)
      [] OTHER -> FALSE

\* Members that are required: no default, not an Option.  The buffer view
\* of the sparse indices and values objects is read from "byteOffset".
RequiredKeys ==
    {<<"Root", "asset">>, <<"Accessor", "bufferView">>,
     <<"Accessor", "componentType">>, <<"Accessor", "type">>,
     <<"BufferView", "buffer">>, <<"Buffer", "uri">>, <<"Texture", "source">>,
     <<"Texture", "sampler">>, <<"Node", "mesh">>,
     <<"AccessorSparseIndices", "byteOffset">>,
     <<"AccessorSparseValues", "byteOffset">>}

ImportFailedWith(type) ==
    /\ result[1].kind = "Err"
    /\ result[1].root = None
    /\ result[1].error[1].variant = "Deserialize"
    /\ result[1].error[1].detail.type = type

\* C12: a required member that is absent from its object aborts the parse:
\* no Root is produced, and the error is the missing-field error naming that
\* member unless the text has another defect that the parser meets first;
\* a missing-field error always names a required member the text lacks, so
\* the absence of an optional or defaultable member never aborts the parse.
C12_MissingRequiredAborts ==
    (pc = "done" /\ json[1].syntax = "ok") =>
        /\ (\E r \in RequiredKeys : LacksKey(TStruct("Root"), Wire, r[1], r[2])) =>
              /\ result[1].kind = "Err"
              /\ result[1].root = None
              /\ result[1].error[1].variant = "Deserialize"
        /\ \A c \in CleanDrops :
              Wire = c.doc =>
                 /\ ImportFailedWith("MissingField")
                 /\ result[1].error[1].detail =
                        SerdeError("MissingField", c.object, c.field)
        /\ (result[1].kind = "Err"
                /\ result[1].error[1].detail.type = "MissingField") =>
              /\ <<result[1].error[1].detail.object,
                   result[1].error[1].detail.field>> \in RequiredKeys
              /\ LacksKey(TStruct("Root"), Wire, result[1].error[1].detail.object,
                          result[1].error[1].detail.field)
        /\ Wire \in DefaultDocs => Returned

\* A texture without "source" was refused with MissingField(Texture, source).
C12_Witness ==
    /\ pc = "done"
    /\ json[1].syntax = "ok"
    /\ LacksKey(TStruct("Root"), Wire, "Texture", "source")
    /\ ImportFailedWith("MissingField")
    /\ result[1].error[1].detail.field = "source"

\* C15: the sampler index of an animation channel points into the samplers
\* of the animation the channel belongs to: it is an index of animation
\* samplers, and a document is returned only if it is less than the number
\* of samplers of that animation.
C15_ChannelSamplerIsOfItsAnimation ==
    Returned =>
        \A a \in 1..Len(ReturnedRoot.animations) :
            \A c \in 1..Len(ReturnedRoot.animations[a].channels) :
                /\ ReturnedRoot.animations[a].channels[c].sampler.tag = "AnimationSampler"
                /\ ReturnedRoot.animations[a].channels[c].sampler.value
                       < Len(ReturnedRoot.animations[a].samplers)

\* An animation whose channel names sampler 0 of its one sampler was returned.
C15_Witness ==
    /\ Returned
    /\ Len(ReturnedRoot.animations) = 1
    /\ Len(ReturnedRoot.animations[1].samplers) = 1
    /\ ReturnedRoot.animations[1].channels[1].sampler.value = 0

\* The sparse storage object of the first accessor, on the wire and parsed.
WireSparse == Wire.accessors[1].sparse
ParsedSparse == ParsedRoot.accessors[1].sparse[1]

\* The object w was read into s as the claim says: "bufferView" is the
\* buffer view and "byteOffset" (0 when absent) the byte offset; an object
\* without "bufferView" is not read at all.
SparseRead(w, s) ==
    IF "bufferView" \in DOMAIN w
    THEN /\ ParsedOk
         /\ Index_serialize(s.buffer_view) = w.bufferView
         /\ s.byte_offset = (IF "byteOffset" \in DOMAIN w THEN w.byteOffset.lo ELSE 0)
    ELSE ~ParsedOk

HasSparse ==
    /\ pc = "done"
    /\ json[1].syntax = "ok"
    /\ "accessors" \in DOMAIN Wire
    /\ Len(Wire.accessors) > 0
    /\ "sparse" \in DOMAIN Wire.accessors[1]
    /\ DOMAIN WireSparse = {"count", "indices", "values"}

\* C16: the sparse indices and the sparse values object give their buffer
\* view under "bufferView" and their byte offset under "byteOffset": with
\* bufferView = b and byteOffset = o the parsed object holds buffer view b
\* and byte offset o, and a "byteOffset" alone is not taken for the buffer
\* view.
C16_SparseBufferViewKey ==
    HasSparse =>
        /\ SparseRead(WireSparse.indices, IF ParsedOk THEN ParsedSparse.indices ELSE Null)
        /\ SparseRead(WireSparse.values, IF ParsedOk THEN ParsedSparse.values ELSE Null)

\* Sparse objects that give only "byteOffset": 1 were read.
C16_Witness ==
    /\ HasSparse
    /\ DOMAIN WireSparse.values = {"byteOffset"}
    /\ WireSparse.values.byteOffset = Num(1)
    /\ ParsedOk
    /\ ParsedSparse.values.buffer_view = Index_new(1, "BufferView")
    /\ ParsedSparse.values.byte_offset = 0

C2_LookupIsChecked ==
    lookup # None =>
        IF InRange(ReturnedRoot, lookup[1].index)
        THEN /\ lookup[1].res.outcome = "ref"
             /\ lookup[1].res.item =
                    Some(Collection(ReturnedRoot, lookup[1].index.tag)
                            [lookup[1].index.value + 1])
        ELSE lookup[1].res.outcome = "OutOfRange"

(***************************************************************************)
(* Properties of the reads of a returned Root (SpecRead).                  *)
(***************************************************************************)
\* C13: a returned Root does not change: no lookup, no slice accessor (asset,
\* extensions_used and extensions_required included) and no later run of the
\* validator changes the length or the contents of a collection, so an index
\* that is in range stays in range; a slice accessor hands out the member
\* as it is held.
C13_ReadsLeaveRootUnchanged ==
    [][(pc = "done" /\ result[1].kind = "Ok") =>
          /\ result' = result
          /\ \A T \in Kinds :
                Len(Collection(result'[1].root[1], T)) =
                    Len(Collection(result[1].root[1], T))
          /\ (lookup' # lookup /\ "index" \in DOMAIN lookup'[1]
                /\ lookup'[1].index.value < Len(Collection(result[1].root[1],
                                                           lookup'[1].index.tag))) =>
                lookup'[1].index.value < Len(Collection(result'[1].root[1],
                                                        lookup'[1].index.tag))
          /\ (lookup' # lookup /\ "slice" \in DOMAIN lookup'[1]) =>
                lookup'[1].res = result[1].root[1][lookup'[1].slice]]_vars

\* The nodes of a Root that has nodes were read as a slice.
C13_Witness ==
    /\ Returned
    /\ lookup # None
    /\ "slice" \in DOMAIN lookup[1]
    /\ lookup[1].slice = "nodes"
    /\ Len(lookup[1].res) > 0
    /\ verdicts # <<>>

C9_IndexRoundTrip ==
    (cin # None /\ cin[1].codec = "Index" /\ cval # None /\ IsOk(cval[1])
        /\ cout # None) =>
        cout[1] = cin[1].w

\* C10: decoding a numeric-coded enumeration succeeds exactly for the codes
\* of its closed set and yields the variant that code is assigned to, and is
\* InvalidEnumValue for every other integer; for AccessorDataType 5126 is
\* F32, 5120, 5121, 5122, 5123, 5125 are I8, U8, I16, U16, U32, and 9999,
\* like every other code, is rejected.
C10_EnumDecodesClosedSet ==
    (cin # None /\ cin[1].codec = "Enum" /\ cval # None) =>
        /\ IsOk(cval[1]) <=>
              (cin[1].w.hi = 0 /\ cin[1].w.lo \in EnumCodes(cin[1].of))
        /\ IsOk(cval[1]) =>
              /\ cval[1].val[1] \in DOMAIN EnumTable(cin[1].of)
              /\ EnumTable(cin[1].of)[cval[1].val[1]] = cin[1].w.lo
        /\ ~IsOk(cval[1]) => cval[1].err[1].type = "InvalidEnumValue"
        /\ cin[1].of = "AccessorDataType" =>
              cval[1] =
                CASE cin[1].w = Num(5120) -> Ok("I8")
                  [] cin[1].w = Num(5121) -> Ok("U8")
                  [] cin[1].w = Num(5122) -> Ok("I16")
                  [] cin[1].w = Num(5123) -> Ok("U16")
                  [] cin[1].w = Num(5125) -> Ok("U32")
                  [] cin[1].w = Num(5126) -> Ok("F32")
                  [] OTHER ->
                        Err(SerdeError("InvalidEnumValue", "AccessorDataType", "code"))

\* The accessor data type code 5126 was decoded, to F32.
C10_Witness ==
    /\ cin # None
    /\ cin[1] = [codec |-> "Enum", of |-> "AccessorDataType", w |-> Num(5126)]
    /\ cval = Some(Ok("F32"))

====
